---------------------------- MODULE Spec2Model ----------------------------
(***************************************************************************)
(* The DIIS extrapolation engine of ChronusQ (include/extrapolate.hpp).    *)
(*                                                                         *)
(* DIIS<T> holds nExtrap, nMat, OSize, the pointer table errorMetric and   *)
(* the vector coeffs.  extrapolate() assembles the bordered matrix B from  *)
(* the inner products of the error metrics, solves B x = (0,..,0,-1) with  *)
(* dgesv_/zgesv_ and returns whether INFO is zero.                         *)
(*                                                                         *)
(* Scalars are exact: a scalar is the Gaussian rational (re + im*i)/den,   *)
(* kept in lowest terms with den > 0.  A double is a scalar with im = 0.   *)
(***************************************************************************)
EXTENDS Integers, FiniteSets, Sequences, TLC

\* ------------------------------------------------------------------------
\* Bounds of the model
\* ------------------------------------------------------------------------
MaxExtrap == 3      \* nExtrap ranges over 0..MaxExtrap
MaxMat    == 2      \* nMat    ranges over 1..MaxMat
MaxOSize  == 2      \* OSize   ranges over 1..MaxOSize
MaxCells  == 4      \* nExtrap * nMat * OSize <= MaxCells
MaxVal    == 2      \* the caller's real values range over -1..MaxVal
MaxCalls  == 2      \* calls of extrapolate() on the one engine

\* ------------------------------------------------------------------------
\* Exact scalar arithmetic
\* ------------------------------------------------------------------------
Abs(n) == IF n < 0 THEN -n ELSE n

RECURSIVE GCD(_, _)
GCD(a, b) == IF b = 0 THEN a ELSE GCD(b, a % b)

\* (re + im*i)/den in lowest terms, den > 0
Norm(re, im, den) ==
  LET s == IF den < 0 THEN -1 ELSE 1
      g == GCD(GCD(Abs(re), Abs(im)), Abs(den))
  IN  [re |-> (s * re) \div g, im |-> (s * im) \div g, den |-> (s * den) \div g]

Cplx(a, b) == [re |-> a, im |-> b, den |-> 1]
Real(a)    == Cplx(a, 0)
Zero       == Real(0)
One        == Real(1)
MinusOne   == Real(-1)

Conj(x)   == [x EXCEPT !.im = -x.im]
Add(x, y) == Norm(x.re * y.den + y.re * x.den, x.im * y.den + y.im * x.den,
                  x.den * y.den)
Neg(x)    == [x EXCEPT !.re = -x.re, !.im = -x.im]
Sub(x, y) == Add(x, Neg(y))
\* cross-reduced first, so that the products stay small
Mul(x, y) ==
  LET g1 == GCD(GCD(Abs(x.re), Abs(x.im)), y.den)
      g2 == GCD(GCD(Abs(y.re), Abs(y.im)), x.den)
      xr == x.re \div g1  xi == x.im \div g1  xd == x.den \div g2
      yr == y.re \div g2  yi == y.im \div g2  yd == y.den \div g1
  IN  Norm(xr * yr - xi * yi, xr * yi + xi * yr, xd * yd)
\* 1/y for y # 0
Inv(y)    == Norm(y.re * y.den, -(y.im * y.den), y.re * y.re + y.im * y.im)
Div(x, y) == Mul(x, Inv(y))

\* f as an explicit table of its values (f @@ the empty function is f)
Strict(f) == f @@ <<>>


\* ------------------------------------------------------------------------
\* Inner-product provider:  InnerProd<T>(N, X, INCX, Y, INCY)
\*   = sum over k = 0..N-1 of conj(X[k*INCX]) * Y[k*INCY], left to right.
\* A buffer is a function from 0..OSize-1 to scalars.
\* ------------------------------------------------------------------------
RECURSIVE DotC(_, _, _, _, _, _)
DotC(n, X, incx, Y, incy, k) ==
  IF k = 0 THEN Zero
  ELSE Add(DotC(n, X, incx, Y, incy, k - 1),
           Mul(Conj(X[(k - 1) * incx]), Y[(k - 1) * incy]))

InnerProd(n, X, incx, Y, incy) == DotC(n, X, incx, Y, incy, n)

\* ------------------------------------------------------------------------
\* Assembly of B.  B is the flat vector of N*N scalars of the code; the
\* code addresses entry (row r, column c) as B[r + c*N].
\* ------------------------------------------------------------------------
\* std::vector<T> B(N*N,0)
ZeroB(N) == [idx \in 0 .. (N * N - 1) |-> Zero]

\* the flat indices k + j*N the accumulation loop visits: k <= j < nExtrap
UpperIdx(N, nE) == {k + j * N : <<k, j>> \in {p \in (0 .. nE - 1) \X (0 .. nE - 1) : p[1] <= p[2]}}

\* AccumulateMat with the first operand taken for both
AccumulateMat_SameSlot(B, N, nE, oS, eM, mem, i) ==
  Strict([idx \in DOMAIN B |->
     LET k == idx % N
         j == idx \div N
     IN  IF k <= j /\ j < nE
           THEN Add(B[idx], InnerProd(oS, mem[eM[k][i]], 1, mem[eM[k][i]], 1))
           ELSE B[idx]])

\* one pass of the outer loop, for tracked matrix i
AccumulateMat(B, N, nE, oS, eM, mem, i) ==
  Strict([idx \in DOMAIN B |->
     LET k == idx % N
         j == idx \div N
     IN  IF k <= j /\ j < nE
           THEN Add(B[idx], InnerProd(oS, mem[eM[k][i]], 1, mem[eM[j][i]], 1))
           ELSE B[idx]])

\* AccumulateUpper storing with = where the code adds with +=
AccumulateUpper_Overwrite(B, N, nE, nM, oS, eM, mem) ==
  IF nM = 0 THEN B ELSE AccumulateMat(B, N, nE, oS, eM, mem, nM - 1)

\* for(i < nMat) for(j < nExtrap) for(k <= j) B[k+j*N] += InnerProd(...)
RECURSIVE AccumulateUpper(_, _, _, _, _, _, _)
AccumulateUpper(B, N, nE, nM, oS, eM, mem) ==
  IF nM = 0 THEN B
  ELSE AccumulateMat(AccumulateUpper(B, N, nE, nM - 1, oS, eM, mem),
                     N, nE, oS, eM, mem, nM - 1)

\* MirrorLower left out
MirrorLower_None(B, N, nE) == B

\* MirrorLower conjugating what it copies
MirrorLower_Conj(B, N, nE) ==
  Strict([idx \in DOMAIN B |->
     LET j == idx % N
         k == idx \div N
     IN  IF k < j /\ j < nE THEN Conj(B[k + j * N]) ELSE B[idx]])

\* for(j < nExtrap) for(k < j) B[j+k*N] = B[k+j*N]
MirrorLower(B, N, nE) ==
  Strict([idx \in DOMAIN B |->
     LET j == idx % N
         k == idx \div N
     IN  IF k < j /\ j < nE THEN B[k + j * N] ELSE B[idx]])

\* SetBorder storing +1.0
SetBorder_PlusOne(B, N, nE) ==
  Strict([idx \in DOMAIN B |->
     IF \E l \in 0 .. nE - 1 : idx = nE + l * N \/ idx = l + nE * N
       THEN One ELSE B[idx]])

\* SetBorder with the second store left out
SetBorder_RowOnly(B, N, nE) ==
  Strict([idx \in DOMAIN B |->
     IF \E l \in 0 .. nE - 1 : idx = nE + l * N
       THEN MinusOne ELSE B[idx]])

\* for(l < nExtrap) { B[nExtrap+l*N] = -1.0; B[l+nExtrap*N] = -1.0; }
SetBorder(B, N, nE) ==
  Strict([idx \in DOMAIN B |->
     IF \E l \in 0 .. nE - 1 : idx = nE + l * N \/ idx = l + nE * N
       THEN MinusOne ELSE B[idx]])

\* SetCorner storing 1.0
SetCorner_One(B, N, nE) == [B EXCEPT ![nE + nE * N] = One]

\* B[nExtrap+nExtrap*N] = 0.0
SetCorner(B, N, nE) == [B EXCEPT ![nE + nE * N] = Zero]

BuildB(N, nE, nM, oS, eM, mem) ==
  SetCorner(SetBorder(MirrorLower(
      AccumulateUpper(ZeroB(N), N, nE, nM, oS, eM, mem), N, nE), N, nE), N, nE)

\* InitRHS storing +1.0 in the constraint entry
InitRHS_PlusOne(c, N, nE) == [[idx \in DOMAIN c |-> IF idx < N THEN Zero ELSE c[idx]]
                                EXCEPT ![nE] = One]

\* InitRHS with the fill_n left out
InitRHS_NoFill(c, N, nE) == [c EXCEPT ![nE] = MinusOne]

\* std::fill_n(&coeffs[0],N,0.); coeffs[nExtrap] = -1.0;
InitRHS(c, N, nE) == [[idx \in DOMAIN c |-> IF idx < N THEN Zero ELSE c[idx]]
                        EXCEPT ![nE] = MinusOne]

\* every flat index of B the assembly reads or writes
BIndices(N, nE) ==
  UpperIdx(N, nE)
    \cup {j + k * N : <<k, j>> \in {p \in (0 .. nE - 1) \X (0 .. nE - 1) : p[1] < p[2]}}
    \cup {nE + l * N : l \in 0 .. nE - 1}
    \cup {l + nE * N : l \in 0 .. nE - 1}
    \cup {nE + nE * N}

\* every index of coeffs the call writes before the solve
CoeffIndices(N, nE) == (0 .. N - 1) \cup {nE}

\* the cells [slot][matrix] of errorMetric the assembly dereferences
HistReads(nE, nM) ==
  {c \in (0 .. nE - 1) \X (0 .. nM - 1) : \E j \in 0 .. nE - 1 : c[1] <= j}


\* ------------------------------------------------------------------------
\* The dense solve  dgesv_/zgesv_(&N,&NRHS,B,&N,iPIV,coeffs,&N,&INFO):
\* LU factorisation with partial pivoting and row interchanges, then, when
\* INFO = 0, the two triangular solves.  INFO = i > 0 when U(i,i) is
\* exactly zero; the right-hand side is then left as it was.
\* ------------------------------------------------------------------------
\* the magnitude the pivot search compares: |x| for dgesv_ (idamax),
\* |re| + |im| for zgesv_ (izamax); as a numerator over x.den
PivotMag(T, x) == IF T = "dcomplex" THEN Abs(x.re) + Abs(x.im) ELSE Abs(x.re)

MagLess(T, x, y) == PivotMag(T, x) * y.den < PivotMag(T, y) * x.den

\* first row r >= j of column j with the largest magnitude
PivotRow(T, N, A, j) ==
  CHOOSE r \in j .. N - 1 :
    /\ \A q \in j .. N - 1 : ~MagLess(T, A[r + j * N], A[q + j * N])
    /\ \A q \in j .. r - 1 : MagLess(T, A[q + j * N], A[r + j * N])

SwapRows(N, A, r1, r2) ==
  Strict([idx \in DOMAIN A |->
     LET r == idx % N
         c == idx \div N
     IN  IF r = r1 THEN A[r2 + c * N]
         ELSE IF r = r2 THEN A[r1 + c * N]
         ELSE A[idx]])

\* the multipliers: the entries of column j below the diagonal, divided
\* by the pivot
ScaleColumn(N, A, j) ==
  Strict([idx \in DOMAIN A |->
     IF idx \div N = j /\ idx % N > j
       THEN Div(A[idx], A[j + j * N]) ELSE A[idx]])

\* the trailing submatrix less multiplier times pivot row
RankOneUpdate(N, A, j) ==
  Strict([idx \in DOMAIN A |->
     LET r == idx % N
         c == idx \div N
     IN  IF r > j /\ c > j
           THEN Sub(A[idx], Mul(A[r + j * N], A[j + c * N]))
           ELSE A[idx]])

\* column j with pivot row jp: interchange and scale when the pivot is not
\* zero, else record INFO = j + 1 (once); then update what is left
GetrfColumn(N, st, j, jp) ==
  IF st.A[jp + j * N] # Zero
    THEN [A    |-> RankOneUpdate(N, ScaleColumn(N, SwapRows(N, st.A, j, jp), j), j),
          ipiv |-> [st.ipiv EXCEPT ![j] = jp],
          info |-> st.info]
    ELSE [A    |-> RankOneUpdate(N, st.A, j),
          ipiv |-> [st.ipiv EXCEPT ![j] = jp],
          info |-> IF st.info = 0 THEN j + 1 ELSE st.info]

\* column j of the factorisation, then the columns after it
RECURSIVE Getrf(_, _, _, _)
Getrf(T, N, st, j) ==
  IF j >= N THEN st
  ELSE Getrf(T, N, GetrfColumn(N, st, j, PivotRow(T, N, st.A, j)), j + 1)

\* the row interchanges of the factorisation, applied to b in order
RECURSIVE Laswp(_, _, _, _)
Laswp(N, ipiv, b, j) ==
  IF j >= N THEN b
  ELSE Laswp(N, ipiv,
             [b EXCEPT ![j] = b[ipiv[j]], ![ipiv[j]] = b[j]], j + 1)

\* L y = b, L unit lower triangular
RECURSIVE SolveL(_, _, _, _)
SolveL(N, A, b, j) ==
  IF j >= N THEN b
  ELSE SolveL(N, A,
              Strict([r \in DOMAIN b |->
                 IF r > j /\ r < N THEN Sub(b[r], Mul(A[r + j * N], b[j])) ELSE b[r]]),
              j + 1)

\* U x = y, from the last column back to the first (j + 1 columns left)
RECURSIVE SolveU(_, _, _, _)
SolveU(N, A, b, j) ==
  IF j < 0 THEN b
  ELSE LET xj == Div(b[j], A[j + j * N])
       IN  SolveU(N, A,
                  Strict([r \in DOMAIN b |->
                     IF r = j THEN xj
                     ELSE IF r < j THEN Sub(b[r], Mul(A[r + j * N], xj))
                     ELSE b[r]]),
                  j - 1)

Getrs(N, A, ipiv, b) == SolveU(N, A, SolveL(N, A, Laswp(N, ipiv, b, 0), 0), N - 1)

\* [A, ipiv, info, x]: the factors, the pivots, INFO and the right-hand
\* side as the solver leaves it
GesvSolve(N, f, b) ==
  [A |-> f.A, ipiv |-> f.ipiv, info |-> f.info,
   x |-> IF f.info = 0 THEN Getrs(N, f.A, f.ipiv, b) ELSE b]

Gesv(T, N, A, b) ==
  GesvSolve(N,
            Getrf(T, N, [A |-> A, ipiv |-> [r \in 0 .. N - 1 |-> 0], info |-> 0], 0),
            b)

\* ReturnValue returning InvFail itself
ReturnValue_InvFail(info) == info # 0

\* InvFail = (INFO != 0); return !InvFail;
ReturnValue(info) == ~(info # 0)

\* what the call hands to the solver, INFO, the return value and coeffs
\* as the solver s leaves them
Outcome(Bm, s) ==
  [B |-> Bm, info |-> s.info, ret |-> ReturnValue(s.info), coeffs |-> s.x]

\* the solve of Bm x = rhs and the return
SolveFor(T, N, Bm, rhs) == Outcome(Bm, Gesv(T, N, Bm, rhs))

\* the whole call on an engine in the state given by the arguments
ExtrapolateOn(T, nE, nM, oS, eM, mem, c) ==
  SolveFor(T, nE + 1, BuildB(nE + 1, nE, nM, oS, eM, mem), InitRHS(c, nE + 1, nE))


\* ------------------------------------------------------------------------
\* State
\* ------------------------------------------------------------------------
VARIABLES
  T,            \* the scalar type of the engine: "double" or "dcomplex"
  nExtrap,      \* DIIS::nExtrap
  nMat,         \* DIIS::nMat
  OSize,        \* DIIS::OSize
  errorMetric,  \* DIIS::errorMetric: [slot][matrix] -> address of a buffer
  coeffs,       \* DIIS::coeffs
  mem,          \* the caller's buffers: address -> OSize scalars
  B,            \* the matrix the last call handed to the solver
  INFO,         \* INFO of the last solve
  ret,          \* the value the last call returned
  reads,        \* the buffer addresses the last call dereferenced
  fault,        \* the last call used an index outside B or coeffs
  pc,           \* the caller: "constructed", "updating" or "returned"
  calls,        \* calls of extrapolate() made so far
  cursor        \* the caller has stored new values into cells 0..cursor-1

vars == <<T, nExtrap, nMat, OSize, errorMetric, coeffs, mem, B, INFO, ret,
          reads, fault, pc, calls, cursor>>

engine == <<T, nExtrap, nMat, OSize, errorMetric>>

\* the values the caller stores into its buffers: for a complex engine the
\* non-negative reals below MaxVal, i and 1 + i
Values(t) ==
  IF t = "dcomplex"
    THEN {Real(a) : a \in 0 .. MaxVal - 1} \cup {Cplx(0, 1), Cplx(1, 1)}
    ELSE {Real(a) : a \in -1 .. MaxVal}

Shapes ==
  {s \in (0 .. MaxExtrap) \X (1 .. MaxMat) \X (1 .. MaxOSize) :
     s[1] * s[2] * s[3] <= MaxCells}

\* std::vector<T>::resize(nExtrap+1) on an empty vector: nExtrap+1 zeros
FreshCoeffs(nE) == [idx \in 0 .. nE |-> Zero]

\* DIIS(nExtrap, nMat, OSize, errorMetric): the members are copied and
\* coeffs is resized; the caller's buffers hold zeros to begin with
Init ==
  /\ T \in {"double", "dcomplex"}
  /\ \E s \in Shapes :
       /\ nExtrap = s[1]
       /\ nMat = s[2]
       /\ OSize = s[3]
  /\ errorMetric = [k \in 0 .. nExtrap - 1 |-> [i \in 0 .. nMat - 1 |-> k * nMat + i]]
  /\ mem = [a \in 0 .. nExtrap * nMat - 1 |-> [e \in 0 .. OSize - 1 |-> Zero]]
  /\ coeffs = FreshCoeffs(nExtrap)
  /\ B = ZeroB(0)
  /\ INFO = 0
  /\ ret = FALSE
  /\ reads = {}
  /\ fault = FALSE
  /\ pc = "constructed"
  /\ calls = 0
  /\ cursor = 0

\* the caller stores v into the next cell of its history, between two
\* calls: element cursor % OSize of the buffer at address cursor \div OSize
Rewrite(v) ==
  /\ cursor < nExtrap * nMat * OSize
  /\ mem' = [mem EXCEPT ![cursor \div OSize][cursor % OSize] = v]
  /\ cursor' = cursor + 1
  /\ pc' = "updating"
  /\ UNCHANGED <<engine, coeffs, B, INFO, ret, reads, fault, calls>>

\* bool DIIS<T>::extrapolate()
Extrapolate ==
  /\ calls < MaxCalls
  /\ \E r \in {ExtrapolateOn(T, nExtrap, nMat, OSize, errorMetric, mem, coeffs)} :
       /\ B' = r.B
       /\ INFO' = r.info
       /\ ret' = r.ret
       /\ coeffs' = r.coeffs
  /\ reads' = {errorMetric[c[1]][c[2]] : c \in HistReads(nExtrap, nMat)}
  /\ fault' = LET N == nExtrap + 1
              IN  ~(/\ BIndices(N, nExtrap) \subseteq 0 .. (N * N - 1)
                    /\ CoeffIndices(N, nExtrap) \subseteq DOMAIN coeffs)
  /\ calls' = calls + 1
  /\ pc' = "returned"
  /\ UNCHANGED <<engine, mem, cursor>>

Next ==
  \/ \E v \in Values(T) : Rewrite(v)
  \/ Extrapolate

Spec == Init /\ [][Next]_vars

\* ------------------------------------------------------------------------
\* Notions the properties are stated in
\* ------------------------------------------------------------------------
Returned == pc = "returned"

\* coeffs[0] + ... + coeffs[n-1]
RECURSIVE SumCoeffs(_, _)
SumCoeffs(c, n) == IF n = 0 THEN Zero ELSE Add(SumCoeffs(c, n - 1), c[n - 1])

\* entry (row r, column c) of the matrix handed to the solver
Entry(r, c) == B[r + c * (nExtrap + 1)]

\* sum over the tracked matrices m of InnerProduct(slot i, slot j)
RECURSIVE GramSum(_, _, _)
GramSum(i, j, m) ==
  IF m = 0 THEN Zero
  ELSE Add(GramSum(i, j, m - 1),
           InnerProd(OSize, mem[errorMetric[i][m - 1]], 1,
                            mem[errorMetric[j][m - 1]], 1))

Slots == 0 .. nExtrap - 1

\* slots p and q hold identical buffers for every tracked matrix
SameSlot(p, q) ==
  \A i \in 0 .. nMat - 1 : mem[errorMetric[p][i]] = mem[errorMetric[q][i]]

\* the history nExtrap=2, nMat=1, OSize=2 with metrics e0 and e1
History2x2(e0, e1) ==
  /\ nExtrap = 2 /\ nMat = 1 /\ OSize = 2
  /\ mem[errorMetric[0][0]] = [e \in 0 .. 1 |-> Real(e0[e + 1])]
  /\ mem[errorMetric[1][0]] = [e \in 0 .. 1 |-> Real(e1[e + 1])]

NonZeroBuffer(buf) == \E e \in DOMAIN buf : buf[e] # Zero

\* ------------------------------------------------------------------------
\* Properties
\* ------------------------------------------------------------------------

\* C1: whenever extrapolate() returns true on a history with nExtrap >= 1,
\* the first nExtrap entries of coeffs sum to exactly 1.
C1_WeightsSumToOne ==
  (Returned /\ nExtrap >= 1 /\ ret) => SumCoeffs(coeffs, nExtrap) = One

C1_Witness ==
  /\ Returned /\ ret /\ nExtrap >= 2
  /\ coeffs[0] # coeffs[1]
  /\ coeffs[0] # Zero /\ coeffs[1] # Zero

C3_ParallelFails ==
  (Returned /\ History2x2(<<1, 0>>, <<2, 0>>)) => ~ret

\* C3 amended: for that history the solve succeeds; extrapolate() returns
\* true and leaves the weights coeffs[0] = 2, coeffs[1] = -1.
C3_ParallelSolves ==
  (Returned /\ History2x2(<<1, 0>>, <<2, 0>>))
    => /\ ret
       /\ INFO = 0
       /\ coeffs[0] = Real(2)
       /\ coeffs[1] = Real(-1)

C3_Witness == Returned /\ History2x2(<<1, 0>>, <<2, 0>>) /\ ret

\* C4: with nExtrap = 1 and a nonzero error metric in the single slot,
\* extrapolate() returns true and coeffs[0] = 1, for every nMat and every
\* value of the metric.
C4_SingleSlotIsOne ==
  (/\ Returned
   /\ nExtrap = 1
   /\ \E i \in 0 .. nMat - 1 : NonZeroBuffer(mem[errorMetric[0][i]]))
    => (ret /\ coeffs[0] = One)

C4_Witness ==
  /\ Returned /\ nExtrap = 1 /\ nMat = 2
  /\ NonZeroBuffer(mem[errorMetric[0][1]])
  /\ coeffs[0] = One
  /\ coeffs[1] \notin {Zero, One}

\* C5: for nExtrap=2, nMat=1, OSize=2, e0=[1,0], e1=[0,1] the Gram
\* sub-block of B is the 2x2 identity, extrapolate() returns true and
\* coeffs[0] = coeffs[1] = 1/2.
C5_Orthonormal ==
  (Returned /\ History2x2(<<1, 0>>, <<0, 1>>))
    => /\ \A r, c \in 0 .. 1 : Entry(r, c) = IF r = c THEN One ELSE Zero
       /\ ret
       /\ coeffs[0] = Norm(1, 0, 2)
       /\ coeffs[1] = Norm(1, 0, 2)

C5_Witness == Returned /\ History2x2(<<1, 0>>, <<0, 1>>) /\ ret

\* C6: extrapolate() returns false exactly when INFO # 0 and true exactly
\* when INFO = 0, and the caller is never anywhere but after the
\* construction, between calls, or after a return.
C6_ResultIsStatus ==
  /\ pc \in {"constructed", "updating", "returned"}
  /\ Returned => (ret <=> INFO = 0)

C6_Witness == Returned /\ nExtrap >= 1 /\ INFO # 0 /\ ~ret

\* C7: for every pair i, j < nExtrap (i <= j and i > j), real and complex,
\* B[i][j] is the sum over the tracked matrices m of
\* InnerProduct(errorMetric[i][m], errorMetric[j][m]).
C7_GramEntries ==
  Returned => \A i, j \in Slots : Entry(i, j) = GramSum(i, j, nMat)

\* C7 amended: for i <= j, B[i][j] is the sum over the tracked matrices m
\* of InnerProduct(errorMetric[i][m], errorMetric[j][m]); for i > j, B[i][j]
\* is the copy of B[j][i], the sum of InnerProduct(errorMetric[j][m],
\* errorMetric[i][m]), which is the stated value for the real type.
C7_GramUpperAndCopy ==
  Returned =>
    \A i, j \in Slots :
      Entry(i, j) = IF i <= j THEN GramSum(i, j, nMat) ELSE GramSum(j, i, nMat)

C7_Witness ==
  /\ Returned /\ T = "dcomplex" /\ nMat = 2
  /\ \E i, j \in Slots : i > j /\ Entry(i, j).im # 0 /\ Entry(i, j).re # 0

\* C8: the Gram sub-block of the B handed to the solver is exactly
\* symmetric, B[j][k] = B[k][j] with no conjugation, real and complex.
C8_GramSymmetric ==
  Returned => \A j, k \in Slots : Entry(j, k) = Entry(k, j)

C8_Witness ==
  /\ Returned /\ T = "dcomplex"
  /\ \E j, k \in Slots : j # k /\ Entry(j, k).im # 0

\* C9: every call returns what a freshly constructed engine returns on the
\* current history and, when that is true, leaves the same coeffs; the
\* call changes neither nExtrap, nMat, OSize, errorMetric nor the caller's
\* buffers.
C9_NoCarryOver ==
  [][calls' # calls =>
       \A f \in {ExtrapolateOn(T, nExtrap, nMat, OSize, errorMetric, mem,
                                FreshCoeffs(nExtrap))} :
         /\ ret' = f.ret
         /\ f.ret => coeffs' = f.coeffs
         /\ UNCHANGED <<engine, mem>>]_vars

C9_Witness ==
  /\ Returned /\ calls >= 2 /\ ret /\ cursor > 0
  /\ coeffs # FreshCoeffs(nExtrap)

\* C10: an engine with nExtrap = 0 never reports success: the call builds
\* B = [0] and coeffs = [-1], reads no history buffer, uses no index
\* outside B or coeffs, the solve reports a singular matrix and the call
\* returns false.
C10_EmptyHistoryFails ==
  (Returned /\ nExtrap = 0)
    => /\ ~ret
       /\ INFO = 1
       /\ B = [idx \in {0} |-> Zero]
       /\ coeffs = [idx \in {0} |-> MinusOne]
       /\ reads = {}
       /\ ~fault

C10_Witness == Returned /\ nExtrap = 0 /\ calls >= 1 /\ ~ret

=============================================================================
